---- MODULE Spec2Model ----
(***************************************************************************)
(* Model of app.py: a Flask service that fetches hourly weather readings   *)
(* from a forecast provider, stores them in the SQLite table weather_data  *)
(* (timestamp TEXT PRIMARY KEY, temperature, humidity) and exports them as *)
(* an Excel table (/export/excel) and as a PDF report (/export/pdf).       *)
(*                                                                         *)
(* Each request is served by a worker (Flask's server is threaded).  A     *)
(* handler is split into steps only where it touches state shared with     *)
(* other requests: the database and the three fixed-name files.            *)
(*                                                                         *)
(* A timestamp is the hour index h standing for the provider's text        *)
(* "YYYY-MM-DDTHH:00"; the text order of that fixed-width format is the    *)
(* order of h.                                                             *)
(***************************************************************************)
EXTENDS Integers, Sequences, FiniteSets, TLC

(* ---------------- bounds ---------------- *)
NumProcs == 2
MaxBatch == 2
MaxHour == 2
NumWindows == 2
WindowLen == 25

(* ---------------- program constants ---------------- *)
ExcelLimit == 48
SampleRows == 10

Procs == 1..NumProcs
Hours == 1..MaxHour
Temps == {5, 9}
Hums == {80}
None == "None"
ArgValues == {None, "", "10"}

VARIABLES db, writer, txn, pc, op, args, called, resp, k, exc, outcome, df,
          excel_file, chart_file, pdf_file, table, doc,
          everUpserted, lastWrite

vars == <<db, writer, txn, pc, op, args, called, resp, k, exc, outcome, df,
          excel_file, chart_file, pdf_file, table, doc,
          everUpserted, lastWrite>>

fileVars == <<excel_file, chart_file, pdf_file>>
exportVars == <<df, table, doc>>
ghostVars == <<everUpserted, lastWrite>>

(* ---------------- values ---------------- *)
Min(a, b) == IF a <= b THEN a ELSE b

Row(ts, t, h) == [timestamp |-> ts, temperature |-> t, humidity |-> h]

NoResp == [time |-> <<>>, temperature_2m |-> <<>>, relative_humidity_2m |-> <<>>]
NoArgs == [lat |-> None, lon |-> None]
GivenArgs == [lat |-> "10", lon |-> "10"]
AllArgs == [lat : ArgValues, lon : ArgValues]
NoOutcome == [status |-> 0, error |-> "", records |-> 0]
NoChart == [exists |-> FALSE, series |-> <<>>]
NoExcel == [exists |-> FALSE, rows |-> <<>>]
NoRange == <<>>
NoDoc == [exists |-> FALSE, location |-> <<>>, date_range |-> NoRange,
          chart |-> NoChart, sample |-> <<>>]

SeqsUpTo(S, n) == UNION {[1..m -> S] : m \in 0..n}

(* what the provider may send back in data["hourly"] *)
Responses ==
    {[time |-> a, temperature_2m |-> b, relative_humidity_2m |-> c] :
        a \in SeqsUpTo(Hours, MaxBatch), b \in SeqsUpTo(Temps, MaxBatch),
        c \in SeqsUpTo(Hums, MaxBatch)}

(* ---------------- the table weather_data ---------------- *)
(* variant: the table has no primary key, every insert adds a row *)
InsertOrReplace_NoKey(rows, r) == rows \cup {r}

(* variant: INSERT OR IGNORE, the stored row wins *)
InsertOrReplace_Ignore(rows, r) ==
    IF \E x \in rows : x.timestamp = r.timestamp THEN rows ELSE rows \cup {r}

(* INSERT OR REPLACE on a table whose primary key is timestamp *)
InsertOrReplace(rows, r) ==
    {x \in rows : x.timestamp # r.timestamp} \cup {r}

(* zip(timestamps, temperatures, humidities): stops at the shortest *)
Zip(a, b, c) ==
    [i \in 1..Min(Len(a), Min(Len(b), Len(c))) |-> Row(a[i], b[i], c[i])]

Batch(r) == Zip(r.time, r.temperature_2m, r.relative_humidity_2m)

(* not lat or not lon: None and "" are falsy *)
Missing(v) == v = None \/ v = ""

(* the except clauses: which response an exception class is turned into *)
ExceptHandler(e) ==
    IF e = "RequestException"
    THEN [status |-> 500, error |-> "Request failed", records |-> 0]
    ELSE [status |-> 500, error |-> "Other error", records |-> 0]

(* ---------------- /weather-report ---------------- *)
Idle(p) == pc[p] = "idle"

(* a request enters a handler: its locals and its response start empty *)
NewRequest(p, handler) ==
    /\ op' = [op EXCEPT ![p] = handler]
    /\ called' = [called EXCEPT ![p] = FALSE]
    /\ resp' = [resp EXCEPT ![p] = NoResp]
    /\ k' = [k EXCEPT ![p] = 0]
    /\ exc' = [exc EXCEPT ![p] = None]
    /\ df' = [df EXCEPT ![p] = <<>>]
    /\ table' = [table EXCEPT ![p] = NoExcel]
    /\ doc' = [doc EXCEPT ![p] = NoDoc]

WeatherReportMissing(p, A) ==
    /\ Idle(p)
    /\ \E a \in A :
        /\ Missing(a.lat) \/ Missing(a.lon)
        /\ args' = [args EXCEPT ![p] = a]
    /\ NewRequest(p, "weather_report")
    /\ outcome' = [outcome EXCEPT ![p] =
            [status |-> 400, error |-> "Missing lat or lon", records |-> 0]]
    /\ UNCHANGED <<db, writer, txn, pc, fileVars, ghostVars>>

(* variant: the handler goes on to the provider without testing lat and lon *)
WeatherReportStart_NoCheck(p, A) ==
    /\ Idle(p)
    /\ \E a \in A : args' = [args EXCEPT ![p] = a]
    /\ NewRequest(p, "weather_report")
    /\ outcome' = [outcome EXCEPT ![p] = NoOutcome]
    /\ pc' = [pc EXCEPT ![p] = "fetch"]
    /\ UNCHANGED <<db, writer, txn, fileVars, ghostVars>>

WeatherReportStart(p, A) ==
    /\ Idle(p)
    /\ \E a \in A :
        /\ ~(Missing(a.lat) \/ Missing(a.lon))
        /\ args' = [args EXCEPT ![p] = a]
    /\ NewRequest(p, "weather_report")
    /\ outcome' = [outcome EXCEPT ![p] = NoOutcome]
    /\ pc' = [pc EXCEPT ![p] = "fetch"]
    /\ UNCHANGED <<db, writer, txn, fileVars, ghostVars>>

(* requests.get fails, times out, or raise_for_status rejects the status *)
FetchFails(p) ==
    /\ pc[p] = "fetch"
    /\ called' = [called EXCEPT ![p] = TRUE]
    /\ exc' = [exc EXCEPT ![p] = "RequestException"]
    /\ outcome' = [outcome EXCEPT ![p] = ExceptHandler("RequestException")]
    /\ pc' = [pc EXCEPT ![p] = "idle"]
    /\ UNCHANGED <<db, writer, txn, op, args, resp, k, fileVars, exportVars, ghostVars>>

(* the payload lacks "hourly" or one of its three keys *)
FetchKeyError(p) ==
    /\ pc[p] = "fetch"
    /\ called' = [called EXCEPT ![p] = TRUE]
    /\ exc' = [exc EXCEPT ![p] = "KeyError"]
    /\ outcome' = [outcome EXCEPT ![p] = ExceptHandler("KeyError")]
    /\ pc' = [pc EXCEPT ![p] = "idle"]
    /\ UNCHANGED <<db, writer, txn, op, args, resp, k, fileVars, exportVars, ghostVars>>

FetchOk(p, R) ==
    /\ pc[p] = "fetch"
    /\ called' = [called EXCEPT ![p] = TRUE]
    /\ \E r \in R : resp' = [resp EXCEPT ![p] = r]
    /\ pc' = [pc EXCEPT ![p] = "loop"]
    /\ UNCHANGED <<db, writer, txn, op, args, k, exc, outcome, fileVars, exportVars, ghostVars>>

(* one c.execute(INSERT OR REPLACE ...): the first one opens the write      *)
(* transaction; the rows it writes stay private to it until conn.commit()  *)
Execute(p) ==
    /\ pc[p] = "loop"
    /\ k[p] < Len(Batch(resp[p]))
    /\ writer \in {0, p}
    /\ txn' = InsertOrReplace(IF writer = p THEN txn ELSE db, Batch(resp[p])[k[p] + 1])
    /\ writer' = p
    /\ k' = [k EXCEPT ![p] = k[p] + 1]
    /\ UNCHANGED <<db, pc, op, args, called, resp, exc, outcome, fileVars, exportVars, ghostVars>>

LastIndex(b, ts) == CHOOSE i \in 1..Len(b) :
    /\ b[i].timestamp = ts
    /\ \A j \in (i + 1)..Len(b) : b[j].timestamp # ts

BatchHours(b) == {b[i].timestamp : i \in 1..Len(b)}

(* conn.commit(); conn.close(); return jsonify(... "records": len(timestamps)) *)
Commit(p) ==
    /\ pc[p] = "loop"
    /\ k[p] = Len(Batch(resp[p]))
    /\ db' = IF writer = p THEN txn ELSE db
    /\ writer' = IF writer = p THEN 0 ELSE writer
    /\ txn' = IF writer = p THEN {} ELSE txn
    /\ outcome' = [outcome EXCEPT ![p] =
            [status |-> 200, error |-> "", records |-> Len(resp[p].time)]]
    /\ pc' = [pc EXCEPT ![p] = "idle"]
    /\ LET b == Batch(resp[p]) IN
        /\ everUpserted' = everUpserted \cup BatchHours(b)
        /\ lastWrite' = [h \in everUpserted \cup BatchHours(b) |->
                IF h \in BatchHours(b) THEN b[LastIndex(b, h)] ELSE lastWrite[h]]
    /\ UNCHANGED <<op, args, called, resp, k, exc, fileVars, exportVars>>

(* variant: autocommit, every executed statement is durable at once *)
StorageFail_Autocommit(p) ==
    /\ pc[p] = "loop"
    /\ exc' = [exc EXCEPT ![p] = "sqlite3.Error"]
    /\ outcome' = [outcome EXCEPT ![p] = ExceptHandler("sqlite3.Error")]
    /\ db' = IF writer = p THEN txn ELSE db
    /\ writer' = IF writer = p THEN 0 ELSE writer
    /\ txn' = IF writer = p THEN {} ELSE txn
    /\ pc' = [pc EXCEPT ![p] = "idle"]
    /\ UNCHANGED <<op, args, called, resp, k, fileVars, exportVars, ghostVars>>

(* sqlite3 raises inside the loop or in commit (database locked, I/O error, *)
(* a value that cannot be bound); the connection is dropped uncommitted    *)
StorageFail(p) ==
    /\ pc[p] = "loop"
    /\ exc' = [exc EXCEPT ![p] = "sqlite3.Error"]
    /\ outcome' = [outcome EXCEPT ![p] = ExceptHandler("sqlite3.Error")]
    /\ writer' = IF writer = p THEN 0 ELSE writer
    /\ txn' = IF writer = p THEN {} ELSE txn
    /\ pc' = [pc EXCEPT ![p] = "idle"]
    /\ UNCHANGED <<db, op, args, called, resp, k, fileVars, exportVars, ghostVars>>

Ingest(p, A, R) ==
    \/ WeatherReportMissing(p, A)
    \/ WeatherReportStart(p, A)
    \/ FetchFails(p)
    \/ FetchKeyError(p)
    \/ FetchOk(p, R)
    \/ Execute(p)
    \/ Commit(p)
    \/ StorageFail(p)

(* ---------------- reads ---------------- *)
(* the latest hour the provider reports *)
MaxStoredHour == IF NumWindows * WindowLen > MaxHour THEN NumWindows * WindowLen ELSE MaxHour

(* every hour a stored timestamp can name, in ascending order *)
HourSeq == [h \in 1..MaxStoredHour |-> h]

(* ORDER BY timestamp ASC: the table has one row per timestamp *)
SortAsc(S) ==
    LET hs == SelectSeq(HourSeq, LAMBDA h : \E r \in S : r.timestamp = h)
    IN [i \in 1..Len(hs) |-> CHOOSE r \in S : r.timestamp = hs[i]]

(* ORDER BY timestamp DESC *)
SortDesc(S) ==
    LET a == SortAsc(S)
    IN [i \in 1..Len(a) |-> a[Len(a) + 1 - i]]

(* LIMIT n / DataFrame.head(n) *)
Limit(s, n) == SubSeq(s, 1, Min(n, Len(s)))

(* variant: the oldest rows instead of the newest *)
ReadRecent_Asc(rows) == Limit(SortAsc(rows), ExcelLimit)

(* SELECT * FROM weather_data ORDER BY timestamp DESC LIMIT 48 *)
ReadRecent(rows) == Limit(SortDesc(rows), ExcelLimit)

(* SELECT * FROM weather_data ORDER BY timestamp ASC *)
ReadAll(rows) == SortAsc(rows)

(* pd.to_datetime on "YYYY-MM-DDTHH:00" *)
ToDatetime(h) == [day |-> h \div 24, hour |-> h % 24]

DtLeq(a, b) == a.day < b.day \/ (a.day = b.day /\ a.hour <= b.hour)

(* strftime("%Y-%m-%d %H:%M") *)
Strftime(d) == <<d.day, d.hour, 0>>

(* f"{v:.1f}": integer part and one fractional digit *)
Format1(v) == <<v, 0>>

(* df["timestamp"] = pd.to_datetime(df["timestamp"]) *)
ConvertTimestamps(s) ==
    [i \in 1..Len(s) |-> [s[i] EXCEPT !.timestamp = ToDatetime(s[i].timestamp)]]

(* df["timestamp"].min() and .max() *)
DfMin(s) == CHOOSE d \in {s[i].timestamp : i \in 1..Len(s)} :
    \A i \in 1..Len(s) : DtLeq(d, s[i].timestamp)

DfMax(s) == CHOOSE d \in {s[i].timestamp : i \in 1..Len(s)} :
    \A i \in 1..Len(s) : DtLeq(s[i].timestamp, d)

(* variant: the range of the sample rows only *)
DateRange_OfSample(s) ==
    LET h == SubSeq(s, 1, Min(SampleRows, Len(s)))
    IN <<Strftime(DfMin(h)), Strftime(DfMax(h))>>

DateRange(s) == <<Strftime(DfMin(s)), Strftime(DfMax(s))>>

(* the rows of the sample table: df.head(10), formatted *)
SampleTable(s) ==
    LET h == Limit(s, SampleRows)
    IN [i \in 1..Len(h) |->
            <<Strftime(h[i].timestamp), Format1(h[i].temperature), Format1(h[i].humidity)>>]

(* variant: the emptiness test never fires *)
DfEmpty_Never(s) == FALSE

(* df.empty *)
DfEmpty(s) == Len(s) = 0

(* request.args.get(name, "N/A") *)
ArgOrDefault(v) == IF v = None THEN "N/A" ELSE v

(* ---------------- /export/excel ---------------- *)
ExcelRead(p) ==
    /\ Idle(p)
    /\ op' = [op EXCEPT ![p] = "export_excel"]
    /\ args' = [args EXCEPT ![p] = NoArgs]
    /\ called' = [called EXCEPT ![p] = FALSE]
    /\ resp' = [resp EXCEPT ![p] = NoResp]
    /\ k' = [k EXCEPT ![p] = 0]
    /\ exc' = [exc EXCEPT ![p] = None]
    /\ outcome' = [outcome EXCEPT ![p] = NoOutcome]
    /\ df' = [df EXCEPT ![p] = ReadRecent(db)]
    /\ table' = [table EXCEPT ![p] = NoExcel]
    /\ doc' = [doc EXCEPT ![p] = NoDoc]
    /\ pc' = [pc EXCEPT ![p] = "to_excel"]
    /\ UNCHANGED <<db, writer, txn, fileVars, ghostVars>>

(* df.to_excel("weather_data_last_48h.xlsx") *)
ExcelWrite(p) ==
    /\ pc[p] = "to_excel"
    /\ excel_file' = [exists |-> TRUE, rows |-> df[p]]
    /\ pc' = [pc EXCEPT ![p] = "send_excel"]
    /\ UNCHANGED <<db, writer, txn, op, args, called, resp, k, exc, outcome,
                   chart_file, pdf_file, exportVars, ghostVars>>

(* send_file("weather_data_last_48h.xlsx") *)
ExcelSend(p) ==
    /\ pc[p] = "send_excel"
    /\ table' = [table EXCEPT ![p] = excel_file]
    /\ outcome' = [outcome EXCEPT ![p] = [status |-> 200, error |-> "", records |-> 0]]
    /\ pc' = [pc EXCEPT ![p] = "idle"]
    /\ UNCHANGED <<db, writer, txn, op, args, called, resp, k, exc, df, doc,
                   fileVars, ghostVars>>

ExportExcel(p) == ExcelRead(p) \/ ExcelWrite(p) \/ ExcelSend(p)

(* ---------------- /export/pdf ---------------- *)
(* the read, the df.empty test and the timestamp conversion *)
PdfRead(p, A) ==
    /\ Idle(p)
    /\ op' = [op EXCEPT ![p] = "export_pdf"]
    /\ \E a \in A : args' = [args EXCEPT ![p] = a]
    /\ called' = [called EXCEPT ![p] = FALSE]
    /\ resp' = [resp EXCEPT ![p] = NoResp]
    /\ k' = [k EXCEPT ![p] = 0]
    /\ exc' = [exc EXCEPT ![p] = None]
    /\ table' = [table EXCEPT ![p] = NoExcel]
    /\ doc' = [doc EXCEPT ![p] = NoDoc]
    /\ LET d == ReadAll(db) IN
        IF DfEmpty(d)
        THEN /\ df' = [df EXCEPT ![p] = d]
             /\ outcome' = [outcome EXCEPT ![p] =
                    [status |-> 404, error |-> "No data available for the last 48 hours",
                     records |-> 0]]
             /\ pc' = pc
        ELSE /\ df' = [df EXCEPT ![p] = ConvertTimestamps(d)]
             /\ outcome' = [outcome EXCEPT ![p] = NoOutcome]
             /\ pc' = [pc EXCEPT ![p] = "savefig"]
    /\ UNCHANGED <<db, writer, txn, fileVars, ghostVars>>

(* plt.savefig("chart.png") *)
PdfSavefig(p) ==
    /\ pc[p] = "savefig"
    /\ chart_file' = [exists |-> TRUE, series |-> df[p]]
    /\ pc' = [pc EXCEPT ![p] = "build"]
    /\ UNCHANGED <<db, writer, txn, op, args, called, resp, k, exc, outcome,
                   excel_file, pdf_file, exportVars, ghostVars>>

(* the story and doc.build(story): reportlab reads chart.png while building *)
PdfBuild(p) ==
    /\ pc[p] = "build"
    /\ pdf_file' = [exists |-> TRUE,
                    location |-> <<ArgOrDefault(args[p].lat), ArgOrDefault(args[p].lon)>>,
                    date_range |-> DateRange(df[p]),
                    chart |-> IF chart_file.exists THEN chart_file ELSE NoChart,
                    sample |-> SampleTable(df[p])]
    /\ pc' = [pc EXCEPT ![p] = "send_pdf"]
    /\ UNCHANGED <<db, writer, txn, op, args, called, resp, k, exc, outcome,
                   excel_file, chart_file, exportVars, ghostVars>>

(* send_file("weather_report_last_48h.pdf") *)
PdfSend(p) ==
    /\ pc[p] = "send_pdf"
    /\ doc' = [doc EXCEPT ![p] = pdf_file]
    /\ outcome' = [outcome EXCEPT ![p] = [status |-> 200, error |-> "", records |-> 0]]
    /\ pc' = [pc EXCEPT ![p] = "idle"]
    /\ UNCHANGED <<db, writer, txn, op, args, called, resp, k, exc, df, table,
                   fileVars, ghostVars>>

ExportPdf(p, A) == PdfRead(p, A) \/ PdfSavefig(p) \/ PdfBuild(p) \/ PdfSend(p)

(* ---------------- provider windows ---------------- *)
(* the value the provider reports for an hour *)
Forecast(h) == Row(h, 5 + (h % 3), 80 + (h % 2))

(* a fetch returns WindowLen consecutive hours; successive fetches overlap or abut *)
Window(s) ==
    [time |-> [i \in 1..WindowLen |-> s + i - 1],
     temperature_2m |-> [i \in 1..WindowLen |-> Forecast(s + i - 1).temperature],
     relative_humidity_2m |-> [i \in 1..WindowLen |-> Forecast(s + i - 1).humidity]]

WindowResponses == {Window(1 + (n - 1) * WindowLen) : n \in 1..NumWindows}

(* one well-formed reading of hour 1 *)
SingleResponses ==
    {[time |-> <<1>>, temperature_2m |-> <<t>>, relative_humidity_2m |-> <<u>>] :
        t \in Temps, u \in Hums}

Init ==
    /\ db = {}
    /\ writer = 0
    /\ txn = {}
    /\ pc = [p \in Procs |-> "idle"]
    /\ op = [p \in Procs |-> "none"]
    /\ args = [p \in Procs |-> NoArgs]
    /\ called = [p \in Procs |-> FALSE]
    /\ resp = [p \in Procs |-> NoResp]
    /\ k = [p \in Procs |-> 0]
    /\ exc = [p \in Procs |-> None]
    /\ outcome = [p \in Procs |-> NoOutcome]
    /\ df = [p \in Procs |-> <<>>]
    /\ excel_file = NoExcel
    /\ chart_file = NoChart
    /\ pdf_file = NoDoc
    /\ table = [p \in Procs |-> NoExcel]
    /\ doc = [p \in Procs |-> NoDoc]
    /\ everUpserted = {}
    /\ lastWrite = [h \in {} |-> Row(0, 0, 0)]

(* ingestion, one request at a time, any provider payload *)
Next == Ingest(1, AllArgs, Responses)

Spec == Init /\ [][Next]_vars

(* ingestion of provider windows and both exports, one request at a time *)
NextExport ==
    \/ Ingest(1, {NoArgs, GivenArgs}, WindowResponses)
    \/ ExportExcel(1)
    \/ ExportPdf(1, {NoArgs, GivenArgs})

SpecExport == Init /\ [][NextExport]_vars

(* concurrent requests: reports interleaved with ingestion *)
NextReport ==
    \E p \in Procs :
        \/ Ingest(p, {NoArgs, GivenArgs}, SingleResponses)
        \/ ExportPdf(p, {GivenArgs})

SpecReport == Init /\ [][NextReport]_vars

(* ======================= properties ======================= *)
StoredHours == {r.timestamp : r \in db}

Finished(p, handler) == pc[p] = "idle" /\ op[p] = handler

(* C1: the store holds exactly one row per distinct timestamp ever upserted:
   the row count equals the number of distinct timestamps, the stored
   timestamps are exactly the upserted ones, and no timestamp is in two rows.
   An upsert counts once the transaction that carries it has committed. *)
C1_OneRowPerTimestamp ==
    /\ Cardinality(db) = Cardinality(everUpserted)
    /\ StoredHours = everUpserted
    /\ \A r1 \in db, r2 \in db : r1.timestamp = r2.timestamp => r1 = r2

(* a batch naming one timestamp twice was ingested over a store that holds it *)
C1_Witness ==
    /\ Finished(1, "weather_report")
    /\ outcome[1].status = 200
    /\ Len(Batch(resp[1])) = 2
    /\ Batch(resp[1])[1].timestamp = Batch(resp[1])[2].timestamp
    /\ Batch(resp[1])[1].temperature # Batch(resp[1])[2].temperature
    /\ Cardinality(db) = 2

C2_State ==
    /\ \A h \in everUpserted : lastWrite[h] \in db
    /\ \A r \in db : r = lastWrite[r.timestamp]

C2_Step ==
    \A p \in Procs :
        (pc[p] = "loop" /\ pc'[p] = "idle" /\ outcome'[p].status = 200) =>
            LET b == Batch(resp[p]) IN
            /\ BatchHours(b) \subseteq StoredHours =>
                /\ Cardinality(db') = Cardinality(db)
                /\ \A i \in 1..Len(b) :
                     (\A j \in (i + 1)..Len(b) : b[j].timestamp # b[i].timestamp)
                        => b[i] \in db'
            /\ (Len(b) = 2 /\ b[1] = b[2]) =>
                db' = {x \in db : x.timestamp # b[1].timestamp} \cup {b[1]}

(* C2: upsert is last-write-wins: the stored pair of every timestamp is the
   one its most recently applied upsert carried; re-ingesting timestamps that
   are all present keeps the row count and replaces the affected rows; and
   upserting one observation twice gives the store that upserting it once gives *)
C2_LastWriteWins == []C2_State /\ [][C2_Step]_vars

(* a stored row was overwritten by a re-ingest with another temperature *)
C2_Witness ==
    /\ Finished(1, "weather_report")
    /\ outcome[1].status = 200
    /\ Len(Batch(resp[1])) = 2
    /\ Batch(resp[1])[1].timestamp # Batch(resp[1])[2].timestamp
    /\ Cardinality(db) = 2
    /\ \A r \in db : r.temperature = 9
    /\ \A i \in 1..2 : Batch(resp[1])[i].temperature = 9

ParamAbsent(v) == v = None \/ v = ""

C3_State ==
    \A p \in Procs :
        (op[p] = "weather_report" /\ (ParamAbsent(args[p].lat) \/ ParamAbsent(args[p].lon))) =>
            /\ pc[p] = "idle"
            /\ outcome[p].status = 400
            /\ outcome[p].error = "Missing lat or lon"
            /\ ~called[p]

C3_Step ==
    (\E p \in Procs : op'[p] = "weather_report"
                      /\ (ParamAbsent(args'[p].lat) \/ ParamAbsent(args'[p].lon)))
        => (db' = db /\ writer' = writer /\ txn' = txn)

(* C3: ingest with latitude or longitude absent or empty fails with the
   missing-parameter error, calls the provider not at all, and leaves the
   store unchanged *)
C3_MissingParameter == []C3_State /\ [][C3_Step]_vars

(* latitude absent, longitude given, over a store that is not empty *)
C3_Witness ==
    /\ Finished(1, "weather_report")
    /\ args[1].lat = None
    /\ args[1].lon = "10"
    /\ outcome[1].status = 400
    /\ db # {}

LengthsDisagree(r) ==
    \/ Len(r.time) # Len(r.temperature_2m)
    \/ Len(r.time) # Len(r.relative_humidity_2m)

(* C7: a provider response whose three sequences differ in length makes
   ingest fail: it reports neither success nor a processed count *)
C7_UnequalLengthsRejected ==
    \A p \in Procs :
        (Finished(p, "weather_report") /\ called[p] /\ LengthsDisagree(resp[p])) =>
            (outcome[p].status # 200 /\ outcome[p].records = 0)

FailureKinds == {"MissingParameter", "ProviderUnavailable", "MalformedResponse",
                 "StorageUnavailable"}

(* where a finished ingest failed *)
Origin(p) ==
    IF outcome[p].status = 400 THEN "MissingParameter"
    ELSE IF exc[p] = "RequestException" THEN "ProviderUnavailable"
    ELSE IF exc[p] = "KeyError" THEN "MalformedResponse"
    ELSE IF exc[p] = "sqlite3.Error" THEN "StorageUnavailable"
    ELSE "none"

(* what the caller sees of a failure of each kind *)
ReportOf(kind) ==
    IF kind = "MissingParameter" THEN <<400, "Missing lat or lon">>
    ELSE LET o == ExceptHandler(IF kind = "ProviderUnavailable" THEN "RequestException"
                                ELSE IF kind = "MalformedResponse" THEN "KeyError"
                                ELSE "sqlite3.Error")
         IN <<o.status, o.error>>

(* C8: the outcome of every failed ingest identifies the failure's origin:
   no failure of another kind is reported with the same outcome *)
C8_KindsDistinguishable ==
    \A p \in Procs :
        (Finished(p, "weather_report") /\ Origin(p) # "none") =>
            \A other \in FailureKinds \ {Origin(p)} :
                ReportOf(other) # <<outcome[p].status, outcome[p].error>>

(* the rows of the applied prefix of p's batch, the last write of each timestamp *)
PrefixRows(p) ==
    LET b == Batch(resp[p])
    IN {b[i] : i \in {n \in 1..k[p] : \A j \in (n + 1)..k[p] : b[j].timestamp # b[n].timestamp}}

FailsInBatch(p) ==
    pc[p] = "loop" /\ k[p] >= 1 /\ pc'[p] = "idle" /\ exc'[p] = "sqlite3.Error"

(* C9 as stated: when persistence fails after k upserts of the batch, those k
   upserts are visible in the store once ingest has reported the failure *)
C9_PrefixRemains ==
    [][\A p \in Procs : FailsInBatch(p) => PrefixRows(p) \subseteq db']_vars

(* C9 as amended: a step of an ingest that does not end it with success
   (an executed upsert, a failure after k upserts) changes no row of the
   store: the k upserts are never visible and the store is as before the
   ingest *)
C9_FailedIngestChangesNothing ==
    [][\A p \in Procs :
        (pc[p] = "loop" /\ ~(pc'[p] = "idle" /\ outcome'[p].status = 200)) => db' = db]_vars

(* persistence failed after one upsert of two, and the upserted row is not stored *)
C9_Witness ==
    /\ Finished(1, "weather_report")
    /\ exc[1] = "sqlite3.Error"
    /\ outcome[1].status = 500
    /\ k[1] = 1
    /\ Len(Batch(resp[1])) = 2
    /\ Batch(resp[1])[1] \notin db
    /\ db # {}

(* ---- exports ---- *)
Rows(s) == {s[i] : i \in 1..Len(s)}

(* s is the n most recent rows of S, newest first *)
MostRecent(s, S, n) ==
    /\ Len(s) = Min(n, Cardinality(S))
    /\ Rows(s) \subseteq S
    /\ \A i \in 1..(Len(s) - 1) : s[i].timestamp > s[i + 1].timestamp
    /\ \A r \in S \ Rows(s) : \A i \in 1..Len(s) : r.timestamp < s[i].timestamp

(* C4: exportTable returns min(48, totalRows) rows, the rows with the
   greatest timestamps of the store, in strictly descending order *)
C4_ExportTable ==
    \A p \in Procs :
        Finished(p, "export_excel") =>
            /\ outcome[p].status = 200
            /\ table[p].exists
            /\ MostRecent(table[p].rows, db, 48)

(* a store of more than 48 rows was exported *)
C4_Witness ==
    /\ Finished(1, "export_excel")
    /\ Cardinality(db) > 48
    /\ Len(table[1].rows) = 48

(* C5: on an empty store exportTable succeeds with a table of zero rows,
   exportReport fails with the no-data error, and neither a chart nor a
   document is written or served *)
C5_EmptyStore ==
    db = {} =>
        /\ ~chart_file.exists
        /\ ~pdf_file.exists
        /\ \A p \in Procs :
            /\ Finished(p, "export_excel") =>
                (outcome[p].status = 200 /\ table[p].exists /\ table[p].rows = <<>>)
            /\ op[p] = "export_pdf" =>
                (pc[p] = "idle" /\ outcome[p].status = 404 /\ ~doc[p].exists)

(* the report was refused on the empty store after the table had been exported from it *)
C5_Witness ==
    /\ db = {}
    /\ Finished(1, "export_pdf")
    /\ outcome[1].status = 404
    /\ excel_file.exists
    /\ excel_file.rows = <<>>

(* the i-th smallest stored hour *)
NthHour(i) == CHOOSE h \in StoredHours : Cardinality({x \in StoredHours : x < h}) = i - 1

RowOf(h) == CHOOSE r \in db : r.timestamp = h

Stamp(h) == <<h \div 24, h % 24, 0>>

(* C6: the report's date range runs from the least to the greatest timestamp
   of the whole store; its sample table holds the min(10, rows) earliest rows,
   earliest first; with more than 10 rows the upper end of the range is not
   in the sample table *)
C6_ReportRange ==
    \A p \in Procs :
        (Finished(p, "export_pdf") /\ outcome[p].status = 200) =>
            LET d == doc[p] IN
            /\ d.exists
            /\ d.date_range = <<Stamp(NthHour(1)), Stamp(NthHour(Cardinality(db)))>>
            /\ Len(d.sample) = Min(10, Cardinality(db))
            /\ \A i \in 1..Len(d.sample) :
                 d.sample[i] = <<Stamp(NthHour(i)), <<RowOf(NthHour(i)).temperature, 0>>,
                                 <<RowOf(NthHour(i)).humidity, 0>>>>
            /\ Cardinality(db) > 10 =>
                 \A i \in 1..Len(d.sample) : d.sample[i][1] # d.date_range[2]

(* a report over more than 10 rows *)
C6_Witness ==
    /\ Finished(1, "export_pdf")
    /\ outcome[1].status = 200
    /\ Cardinality(db) > 10
    /\ Len(doc[1].sample) = 10
    /\ doc[1].date_range[1] # doc[1].date_range[2]

(* C10: the document an exportReport invocation serves is the one it
   rendered (its range and sample table come from the rows it read), and the
   chart in it was rendered from the rows that invocation read *)
C10_OwnArtifacts ==
    \A p \in Procs :
        (Finished(p, "export_pdf") /\ outcome[p].status = 200) =>
            /\ doc[p].exists
            /\ doc[p].date_range = DateRange(df[p])
            /\ doc[p].sample = SampleTable(df[p])
            /\ doc[p].chart.exists
            /\ doc[p].chart.series = df[p]
====
